---- MODULE Spec2Model ----
(***************************************************************************)
(* The frame loop, the double-buffered particle state and the resource     *)
(* lifecycle of the N-body WebGPU program (src/src/nbody.ts, lines 1-296,  *)
(* and the compute kernel of src/src/shaders.wgsl).                        *)
(*                                                                         *)
(* Units.  f32 vectors are modelled on an integer grid: one length unit is *)
(* kSoftening (0.2), one time unit is kDelta, and a vec4 is the pair       *)
(* <<x, w>> of its first and fourth component.  inverseSqrt is evaluated   *)
(* in fixed point (FixedOne).                                              *)
(*                                                                         *)
(* Scheduling.  JavaScript runs one callback to completion; the            *)
(* continuation of an await is a microtask, which runs before any further  *)
(* task (a frame callback, a user event).                                  *)
(***************************************************************************)
EXTENDS Integers, Sequences, FiniteSets, TLC

\* ------------------------------------------------------------------ bounds
MaxRuns == 2      \* run() calls that can be awaiting init() at the same time
MaxSteps == 2     \* executed simulation steps modelled after one reset
MaxCamera == 1    \* the camera offset ranges over 0..MaxCamera

\* --------------------------------------------------------------- constants
kDelta == 1       \* the timestep, in time units of kDelta
kSoftening == 1   \* the softening length, in length units of kSoftening
kRadius == 3      \* 0.6, in length units of 0.2
FixedOne == 256   \* 1.0 of the fixed-point inverse square root

\* The (body count, workgroup size) pairs the option lists can hold.
Options == {<<2, 1>>, <<2, 2>>, <<3, 2>>, <<0, 1>>}

Runs == 1..MaxRuns
BufIds == 1..6
Undefined == -1
NullPipeline == [dev |-> 0, n |-> 0, w |-> 0]
NoBuffer == [dev |-> 0, data |-> <<>>]
NoTick == [kind |-> "none", acquired |-> 0, executed |-> FALSE]
NoFault == [kind |-> "none", reports |-> 0, invalid |-> FALSE]

VARIABLES
  loaded,          \* the script has been evaluated (run() of line 296 was called)
  selection,       \* the options selected in the "numbodies" and "wgsize" lists
  runs,            \* the run() calls: where each is
  device,          \* 0 is null, else the identity of the GPUDevice
  canvasContext,   \* 0, or the device the canvas context is configured for
  numBodies, workgroupSize,
  computePipeline, renderPipeline,
  positionsIn, positionsOut, velocities,   \* buffer handles, 0 is null
  mem,             \* the GPU buffers: their device and contents
  submitted,       \* the passes of the command buffer the last handler submitted
  lastTick,        \* what draw() did, if the last handler called it
  rafPending,      \* draw callbacks registered with requestAnimationFrame
  paused, cameraOffset,
  fault,           \* the outstanding fatal error: its kind, how often it was reported
                   \* (2 is "more than once"), and whether the pipelines are invalid
  hist             \* history: roles at the last reset, swaps and executed steps since, last written positions

vars == <<loaded, selection, runs, device, canvasContext, numBodies, workgroupSize,
          computePipeline, renderPipeline, positionsIn, positionsOut, velocities,
          mem, submitted, lastTick, rafPending, paused, cameraOffset, fault, hist>>

gpuObjects == <<computePipeline, renderPipeline, positionsIn, positionsOut, velocities, mem>>
config == <<numBodies, workgroupSize>>
drawn == <<submitted, lastTick, rafPending>>

\* ------------------------------------------------------------ the kernel
Vec4Add(a, b) == <<a[1] + b[1], a[2] + b[2]>>
Vec4Scale(a, k) == <<a[1] * k, a[2] * k>>

\* The integer square root: the largest r with r*r <= q.
RECURSIVE ISqrtFrom(_, _)
ISqrtFrom(q, r) == IF (r + 1) * (r + 1) > q THEN r ELSE ISqrtFrom(q, r + 1)
ISqrt(q) == ISqrtFrom(q, 0)

\* dist*dist*dist with dist = inverseSqrt(distSq), in fixed point.
InvDistCubed(distSq) == FixedOne \div (distSq * ISqrt(distSq))

computeForceNoDiff(ipos, jpos) ==
  LET d == <<jpos[1], 0>>
      distSq == d[1] * d[1] + kSoftening * kSoftening
      coeff == jpos[2] * InvDistCubed(distSq)
  IN  Vec4Scale(d, coeff)
computeForce(ipos, jpos) ==
  LET d == <<jpos[1] - ipos[1], 0>>
      distSq == d[1] * d[1] + kSoftening * kSoftening
      coeff == jpos[2] * InvDistCubed(distSq)
  IN  Vec4Scale(d, coeff)

RECURSIVE ForceLoop(_, _, _)
ForceLoop(pos, pin, n) ==
  IF n <= 0 THEN <<0, 0>>
  ELSE Vec4Add(ForceLoop(pos, pin, n - 1), computeForce(pos, pin[n - 1]))

\* One invocation: the new velocity and position of body idx.
cs_main(idx, pin, vel, nBodies) ==
  LET pos == pin[idx]
      force == ForceLoop(pos, pin, nBodies)
      velocity == Vec4Add(vel[idx], Vec4Scale(force, kDelta))
  IN  [velocity |-> velocity, position |-> Vec4Add(pos, Vec4Scale(velocity, kDelta))]

\* dispatch(x): x is converted to an unsigned integer by truncation.
DispatchCount(n, w) == n \div w

\* The global invocation ids of a dispatch of `count` workgroups of size w.
Invocations(count, w) == 0..(count * w - 1)

\* One compute pass over the buffers bound at slots 0, 1, 2: each invocation
\* that falls inside the buffers writes its velocity and its out position.
ComputePass(pin, pout, vel, count, pipeline) ==
  LET ids == Invocations(count, pipeline.w) \cap DOMAIN pin
      res(i) == cs_main(i, pin, vel, pipeline.n)
  IN  [out |-> [i \in DOMAIN pout |-> IF i \in ids THEN res(i).position ELSE pout[i]],
       vel |-> [i \in DOMAIN vel |-> IF i \in ids THEN res(i).velocity ELSE vel[i]]]

\* The storage locations <<buffer, index>> invocation idx reads and writes,
\* with the buffers bg bound at slots 0, 1, 2.
Reads(idx, bg, nBodies) ==
  {<<bg[1], idx>>, <<bg[3], idx>>} \cup {<<bg[1], i>> : i \in 0..(nBodies - 1)}
Writes(idx, bg) == {<<bg[3], idx>>, <<bg[2], idx>>}

\* The same pass with the invocations run one after the other in the given
\* order, each on the memory m the ones before it left.
RECURSIVE SequentialPass(_, _, _, _)
SequentialPass(order, m, bg, pipeline) ==
  IF order = <<>> THEN m
  ELSE LET idx == Head(order)
           res == cs_main(idx, m[bg[1]].data, m[bg[3]].data, pipeline.n)
           m1 == [m EXCEPT ![bg[3]].data[idx] = res.velocity]
           m2 == [m1 EXCEPT ![bg[2]].data[idx] = res.position]
       IN  SequentialPass(Tail(order), m2, bg, pipeline)

\* ------------------------------------------------------------- resources
\* The k lowest handles of S.
RECURSIVE Lowest(_, _)
Lowest(S, k) ==
  IF k = 0 \/ S = {} THEN <<>>
  ELSE LET m == CHOOSE x \in S : \A y \in S : x <= y
       IN  <<m>> \o Lowest(S \ {m}, k - 1)

\* createBuffer returns new objects: handles no global refers to.
FreshBuffers == Lowest(BufIds \ {positionsIn, positionsOut, velocities}, 3)

\* initBodies: every body on the sphere of radius kRadius, mass 1.
SeedVecs == {<<x, 1>> : x \in {-kRadius, kRadius}}
SeedStates(n) == [0..(n - 1) -> SeedVecs]
ZeroData(n) == [i \in 0..(n - 1) |-> <<0, 0>>]

\* A pipeline: its device and the constants its shader source was generated with.
NoComputePipeline(dev, n, w) == NullPipeline
CreateComputePipelineStale(dev, n, w) == [dev |-> dev, n |-> numBodies, w |-> workgroupSize]
CreatePipeline(dev, n, w) == [dev |-> dev, n |-> n, w |-> w]
CreateComputePipeline(dev, n, w) == CreatePipeline(dev, n, w)

\* The positions buffer each role names once the frame is submitted.
SwapKeepsRoles(pin, pout) == [in |-> pin, out |-> pout]
SwapLosesIn(pin, pout) == [in |-> pout, out |-> pout]
Swap(pin, pout) == [in |-> pout, out |-> pin]

\* The buffer the render pass reads its instances from.
VertexBufferIn(pin, pout) == pin
VertexBuffer(pin, pout) == pout

\* The passes draw() encodes into its one command buffer, in order; the
\* buffers of the compute pass are those of the bind group, by slot.
CommandsRenderFirst(bg, count, vertex, instances) ==
  << [pass |-> "render", pipeline |-> renderPipeline, buffers |-> <<vertex>>, n |-> instances],
     [pass |-> "compute", pipeline |-> computePipeline, buffers |-> bg, n |-> count] >>
Commands(bg, count, vertex, instances) ==
  << [pass |-> "compute", pipeline |-> computePipeline, buffers |-> bg, n |-> count],
     [pass |-> "render", pipeline |-> renderPipeline, buffers |-> <<vertex>>, n |-> instances] >>

\* getSelectedNumber: the options selected when run() reads the lists.
OptionsRead == selection

\* -------------------------------------------------------------- draw()
\* `dev` is the value of device and `raf` the callbacks still registered
\* when draw() is entered.

DrawNotReadyStops(raf) ==
  /\ rafPending' = raf
  /\ lastTick' = [NoTick EXCEPT !.kind = "notready"]
  /\ submitted' = <<>>
  /\ UNCHANGED <<positionsIn, positionsOut, mem, fault, hist>>
DrawNotReady(raf) ==
  /\ rafPending' = raf + 1
  /\ lastTick' = [NoTick EXCEPT !.kind = "notready"]
  /\ submitted' = <<>>
  /\ UNCHANGED <<positionsIn, positionsOut, mem, fault, hist>>

\* The error is reported once more.
Reported(f) == [f EXCEPT !.reports = IF @ < 2 THEN @ + 1 ELSE @]

\* Encoding with an invalid pipeline raises a validation error, no exception.
Validated == fault' = IF fault.invalid THEN Reported(fault) ELSE fault

\* Objects of one device are valid to use only with that device; a command
\* buffer that fails validation executes nothing.
Executes(dev) ==
  /\ ~fault.invalid
  /\ dev = computePipeline.dev /\ dev = renderPipeline.dev
  /\ dev = canvasContext
  /\ \A b \in {positionsIn, positionsOut, velocities} : mem[b].dev = dev

DrawStep(dev, raf) ==
  LET bg == <<positionsIn, positionsOut, velocities>>
      count == DispatchCount(numBodies, workgroupSize)
      vertex == VertexBuffer(positionsIn, positionsOut)
      ok == Executes(dev)
      res == ComputePass(mem[positionsIn].data, mem[positionsOut].data,
                         mem[velocities].data, count, computePipeline)
      roles == Swap(positionsIn, positionsOut)
  IN  /\ submitted' = Commands(bg, count, vertex, numBodies)
      /\ mem' = IF ok
                THEN [mem EXCEPT ![positionsOut].data = res.out, ![velocities].data = res.vel]
                ELSE mem
      /\ lastTick' = [kind |-> "step", acquired |-> 1, executed |-> ok]
      /\ positionsIn' = roles.in
      /\ positionsOut' = roles.out
      /\ hist' = [hist EXCEPT !.swaps = @ + 1,
                              !.steps = IF ok THEN @ + 1 ELSE @,
                              !.written = IF ok THEN [buf |-> positionsOut, data |-> res.out]
                                          ELSE @]
      /\ rafPending' = raf + 1
      /\ Validated

\* A paused frame: no compute pass and no swap; the current positions are drawn.
DrawPausedSteps(dev, raf) == DrawStep(dev, raf)
DrawPausedRendersOut(dev, raf) ==
  /\ submitted' = << [pass |-> "render", pipeline |-> renderPipeline,
                      buffers |-> <<positionsOut>>, n |-> numBodies] >>
  /\ lastTick' = [kind |-> "paused", acquired |-> 1, executed |-> Executes(dev)]
  /\ rafPending' = raf + 1
  /\ Validated
  /\ UNCHANGED <<positionsIn, positionsOut, mem, hist>>
DrawPaused(dev, raf) ==
  /\ submitted' = << [pass |-> "render", pipeline |-> renderPipeline,
                      buffers |-> <<positionsIn>>, n |-> numBodies] >>
  /\ lastTick' = [kind |-> "paused", acquired |-> 1, executed |-> Executes(dev)]
  /\ rafPending' = raf + 1
  /\ Validated
  /\ UNCHANGED <<positionsIn, positionsOut, mem, hist>>

draw(dev, raf) ==
  IF computePipeline = NullPipeline THEN DrawNotReady(raf)
  ELSE IF paused THEN DrawPaused(dev, raf)
  ELSE DrawStep(dev, raf)

\* A handler that does not call draw().
NoDraw == submitted' = <<>> /\ lastTick' = NoTick /\ UNCHANGED rafPending

\* ------------------------------------------------------ initPipelines()
\* A reset leaves the loop running, not paused.
ResetPause == paused' = FALSE

initPipelinesOnce(dev, n, w) ==
  IF computePipeline # NullPipeline THEN UNCHANGED <<gpuObjects, hist>>
  ELSE
    \E seed \in SeedStates(n) :
      LET new == FreshBuffers
      IN  /\ renderPipeline' = CreatePipeline(dev, n, w)
          /\ computePipeline' = CreateComputePipeline(dev, n, w)
          /\ positionsIn' = new[1]
          /\ positionsOut' = new[2]
          /\ velocities' = new[3]
          /\ mem' = [b \in BufIds |->
                       IF b = new[1] THEN [dev |-> dev, data |-> seed]
                       ELSE IF b \in {new[2], new[3]} THEN [dev |-> dev, data |-> ZeroData(n)]
                       ELSE NoBuffer]
          /\ hist' = [in |-> new[1], out |-> new[2], swaps |-> 0, steps |-> 0,
                      written |-> [buf |-> new[1], data |-> seed]]
initPipelines(dev, n, w) ==
  \E seed \in SeedStates(n) :
    LET new == FreshBuffers
    IN  /\ renderPipeline' = CreatePipeline(dev, n, w)
        /\ computePipeline' = CreateComputePipeline(dev, n, w)
        /\ positionsIn' = new[1]
        /\ positionsOut' = new[2]
        /\ velocities' = new[3]
        /\ mem' = [b \in BufIds |->
                     IF b = new[1] THEN [dev |-> dev, data |-> seed]
                     ELSE IF b \in {new[2], new[3]} THEN [dev |-> dev, data |-> ZeroData(n)]
                     ELSE NoBuffer]
        /\ hist' = [in |-> new[1], out |-> new[2], swaps |-> 0, steps |-> 0,
                    written |-> [buf |-> new[1], data |-> seed]]

\* ------------------------------------------------------------- handlers
MicrotaskPending == \E r \in Runs : runs[r] = "resumed"
FreeRun(r) == runs[r] = "idle" /\ \A q \in Runs : q < r => runs[q] # "idle"

Init ==
  /\ loaded = FALSE
  /\ selection \in Options
  /\ runs = [r \in Runs |-> "idle"]
  /\ device = 0
  /\ canvasContext = 0
  /\ numBodies = Undefined
  /\ workgroupSize = Undefined
  /\ computePipeline = NullPipeline
  /\ renderPipeline = NullPipeline
  /\ positionsIn = 0
  /\ positionsOut = 0
  /\ velocities = 0
  /\ mem = [b \in BufIds |-> NoBuffer]
  /\ submitted = <<>>
  /\ lastTick = NoTick
  /\ rafPending = 0
  /\ paused = FALSE
  /\ cameraOffset = 0
  /\ fault = NoFault
  /\ hist = [in |-> 0, out |-> 0, swaps |-> 0, steps |-> 0,
             written |-> [buf |-> 0, data |-> <<>>]]

\* run() with device == null: init() is called and awaits the adapter.
RunAwaitsInit(r) ==
  /\ device = 0
  /\ FreeRun(r)
  /\ runs' = [runs EXCEPT ![r] = "adapter"]
  /\ NoDraw
  /\ UNCHANGED <<device, canvasContext, config, gpuObjects, paused, cameraOffset,
                 fault, hist>>

\* The script is evaluated: run() at its end.
Load ==
  /\ ~loaded
  /\ loaded' = TRUE
  /\ selection' = selection
  /\ \E r \in Runs : RunAwaitsInit(r)

\* The user selects other options before the device exists; run() is called.
RunEarly(c) ==
  /\ loaded /\ ~MicrotaskPending
  /\ selection' = c
  /\ \E r \in Runs : RunAwaitsInit(r)
  /\ UNCHANGED loaded

\* The user selects other options once the device exists; run() is called
\* and runs to its end without awaiting.
RunRebuild(c) ==
  /\ loaded /\ ~MicrotaskPending
  /\ device # 0
  /\ selection' = c
  /\ numBodies' = c[1]
  /\ workgroupSize' = c[2]
  /\ initPipelines(device, c[1], c[2])
  /\ fault' = NoFault
  /\ ResetPause
  /\ NoDraw
  /\ UNCHANGED <<loaded, runs, device, canvasContext, cameraOffset>>

\* requestAdapter() resolves; init() goes on to await requestDevice().
AdapterResolved(r) ==
  /\ runs[r] = "adapter"
  /\ runs' = [runs EXCEPT ![r] = "device"]
  /\ NoDraw
  /\ UNCHANGED <<loaded, selection, device, canvasContext, config, gpuObjects,
                 paused, cameraOffset, fault, hist>>

\* requestDevice() resolves; init() runs to its end: device, canvas, draw().
DeviceResolved(r) ==
  /\ runs[r] = "device"
  /\ runs' = [runs EXCEPT ![r] = "resumed"]
  /\ device' = r
  /\ canvasContext' = r
  /\ draw(r, rafPending)
  /\ UNCHANGED <<loaded, selection, config, computePipeline, renderPipeline, velocities,
                 paused, cameraOffset>>

\* run() continues after await init(): options are read, pipelines rebuilt.
RunContinue(r) ==
  /\ runs[r] = "resumed"
  /\ runs' = [runs EXCEPT ![r] = "idle"]
  /\ numBodies' = OptionsRead[1]
  /\ workgroupSize' = OptionsRead[2]
  /\ initPipelines(device, numBodies', workgroupSize')
  /\ fault' = NoFault
  /\ ResetPause
  /\ NoDraw
  /\ UNCHANGED <<loaded, selection, device, canvasContext, cameraOffset>>

\* The browser runs one registered frame callback.
Tick ==
  /\ rafPending > 0 /\ ~MicrotaskPending
  /\ (computePipeline # NullPipeline /\ ~paused) =>
       (hist.steps < MaxSteps /\ hist.swaps < MaxSteps + MaxRuns)
  /\ draw(device, rafPending - 1)
  /\ UNCHANGED <<loaded, selection, runs, device, canvasContext, config, computePipeline,
                 renderPipeline, velocities, paused, cameraOffset>>

\* The pause control.
TogglePause ==
  /\ loaded /\ ~MicrotaskPending
  /\ paused' = ~paused
  /\ NoDraw
  /\ UNCHANGED <<loaded, selection, runs, device, canvasContext, config, gpuObjects,
                 cameraOffset, fault, hist>>

\* Directional input: the camera offset moves by one increment.
MoveCamera(d) ==
  /\ loaded /\ ~MicrotaskPending
  /\ cameraOffset + d \in 0..MaxCamera
  /\ cameraOffset' = cameraOffset + d
  /\ NoDraw
  /\ UNCHANGED <<loaded, selection, runs, device, canvasContext, config, gpuObjects,
                 paused, fault, hist>>

Next ==
  \/ Load
  \/ \E c \in Options : RunEarly(c)
  \/ \E c \in Options : RunRebuild(c)
  \/ \E r \in Runs : AdapterResolved(r)
  \/ \E r \in Runs : DeviceResolved(r)
  \/ \E r \in Runs : RunContinue(r)
  \/ Tick
  \/ TogglePause
  \/ \E d \in {-1, 1} : MoveCamera(d)

Spec == Init /\ [][Next]_vars

\* ------------------------------------------------------- the GPU refuses
\* The same program where the browser's GPU may refuse a request.
Faults == {"buffer", "pipeline"}

\* A fatal error of kind f happens and is reported.
Failed(f) == [fault EXCEPT !.kind = f, !.reports = 1]

\* requestAdapter() resolves with null: adapter.requestDevice() throws, init()
\* and the run() awaiting it reject, and the rejection is reported.
AdapterUnavailable(r) ==
  /\ runs[r] = "adapter"
  /\ runs' = [runs EXCEPT ![r] = "idle"]
  /\ fault' = Failed("adapter")
  /\ NoDraw
  /\ UNCHANGED <<loaded, selection, device, canvasContext, config, gpuObjects,
                 paused, cameraOffset, hist>>

\* requestDevice() rejects: init() and the run() awaiting it reject.
DeviceUnavailable(r) ==
  /\ runs[r] = "device"
  /\ runs' = [runs EXCEPT ![r] = "idle"]
  /\ fault' = Failed("device")
  /\ NoDraw
  /\ UNCHANGED <<loaded, selection, device, canvasContext, config, gpuObjects,
                 paused, cameraOffset, hist>>

\* initPipelines() where the GPU refuses.  "buffer": the first createBuffer
\* (mapped at creation) throws once the pipelines are null, and run() rejects.
\* "pipeline": the shader does not compile; the pipeline objects are created
\* invalid, nothing is thrown, and the error is reported.
initPipelinesFails(dev, n, w, f) ==
  /\ IF f = "buffer"
     THEN /\ renderPipeline' = NullPipeline
          /\ computePipeline' = NullPipeline
          /\ UNCHANGED <<positionsIn, positionsOut, velocities, mem, hist, paused>>
     ELSE initPipelines(dev, n, w) /\ ResetPause
  /\ fault' = [Failed(f) EXCEPT !.invalid = (f = "pipeline")]

RunRebuildFails(c, f) ==
  /\ loaded /\ ~MicrotaskPending
  /\ device # 0
  /\ selection' = c
  /\ numBodies' = c[1]
  /\ workgroupSize' = c[2]
  /\ initPipelinesFails(device, c[1], c[2], f)
  /\ NoDraw
  /\ UNCHANGED <<loaded, runs, device, canvasContext, cameraOffset>>

RunContinueFails(r, f) ==
  /\ runs[r] = "resumed"
  /\ runs' = [runs EXCEPT ![r] = "idle"]
  /\ numBodies' = OptionsRead[1]
  /\ workgroupSize' = OptionsRead[2]
  /\ initPipelinesFails(device, numBodies', workgroupSize', f)
  /\ NoDraw
  /\ UNCHANGED <<loaded, selection, device, canvasContext, cameraOffset>>

\* The handlers of init(), run() and draw(), and the refusals.
NextFaults ==
  \/ Load
  \/ \E c \in Options : RunEarly(c)
  \/ \E c \in Options : RunRebuild(c)
  \/ \E r \in Runs : AdapterResolved(r)
  \/ \E r \in Runs : DeviceResolved(r)
  \/ \E r \in Runs : RunContinue(r)
  \/ Tick
  \/ \E r \in Runs : AdapterUnavailable(r)
  \/ \E r \in Runs : DeviceUnavailable(r)
  \/ \E c \in Options, f \in Faults : RunRebuildFails(c, f)
  \/ \E r \in Runs, f \in Faults : RunContinueFails(r, f)

SpecFaults == Init /\ [][NextFaults]_vars

\* ------------------------------------------------------------ properties
phase ==
  IF computePipeline # NullPipeline THEN (IF paused THEN "Paused" ELSE "Ready")
  ELSE IF loaded THEN "Initializing" ELSE "Uninitialized"

\* The step called draw() (a frame tick, or the call at the end of init()).
Drew == lastTick'.kind # "none"

ValidConfig(c) == c[1] > 0 /\ c[1] % c[2] = 0

\* run() has applied the selected options in this step.
Applied == (\E c \in Options : RunRebuild(c)) \/ (\E r \in Runs : RunContinue(r))

HasPass(kind) == \E i \in DOMAIN submitted : submitted[i].pass = kind
PassCount(cmds, kind) == Cardinality({i \in DOMAIN cmds : cmds[i].pass = kind})

\* C11: while a fatal error is outstanding (no adapter, no device, a particle
\* buffer that cannot be allocated, a pipeline that does not compile), no call
\* of draw() submits a compute or render pass, and the error is reported once.
C11_FatalStopsLoop ==
  /\ [][(fault.kind # "none" /\ Drew) => submitted' = <<>>]_vars
  /\ [](fault.reports <= 1)

\* C1: while paused, a frame tick leaves the contents of positionsIn,
\* positionsOut and velocities and the in/out roles as they were, and still
\* submits one render pass.
C1_PausedTickFreezes ==
  [][(phase = "Paused" /\ Drew) =>
       /\ UNCHANGED <<positionsIn, positionsOut, velocities, mem>>
       /\ PassCount(submitted', "render") = 1
       /\ PassCount(submitted', "compute") = 0
       /\ lastTick'.acquired = 1]_vars

C1_Witness ==
  /\ phase = "Paused" /\ lastTick.kind = "paused" /\ lastTick.executed
  /\ hist.steps >= 1 /\ HasPass("render")

\* C2: every step exchanges the two handles and leaves the storage of the
\* buffer that was read untouched; so after an even number of steps since the
\* reset "in" and "out" are the buffers they were, after an odd number the
\* other way round.
C2_SwapIsInvolution ==
  /\ [](positionsIn # 0 =>
          IF hist.swaps % 2 = 0
          THEN positionsIn = hist.in /\ positionsOut = hist.out
          ELSE positionsIn = hist.out /\ positionsOut = hist.in)
  /\ [][lastTick'.kind = "step" =>
          /\ positionsIn' = positionsOut /\ positionsOut' = positionsIn
          /\ positionsIn' # positionsOut'
          /\ mem'[positionsIn] = mem[positionsIn]]_vars

C2_Witness ==
  /\ lastTick.kind = "step" /\ lastTick.executed /\ hist.swaps = 2
  /\ positionsIn = hist.in /\ mem[hist.in].data # mem[hist.out].data

\* C3: options whose workgroup size does not divide the body count, or whose
\* body count is <= 0, are rejected when run() applies them: buffers,
\* pipelines, numBodies and workgroupSize stay as they were.
C3_InvalidConfigRejected ==
  [][(Applied /\ ~ValidConfig(selection')) => UNCHANGED <<gpuObjects, config>>]_vars

\* C4: on a tick that runs a simulation step, the vertex buffer of the render
\* pass is the buffer the compute pass of that tick writes, which holds the
\* "in" role after the swap; it is not the buffer the compute pass read.
C4_RendersWrittenBuffer ==
  lastTick.kind = "step" =>
    /\ Len(submitted) = 2
    /\ submitted[2].buffers = <<submitted[1].buffers[2]>>
    /\ submitted[2].buffers # <<submitted[1].buffers[1]>>
    /\ submitted[2].buffers = <<positionsIn>>
    /\ lastTick.executed =>
         /\ hist.written.buf = positionsIn
         /\ mem[positionsIn].data = hist.written.data

C4_Witness ==
  /\ lastTick.kind = "step" /\ lastTick.executed /\ hist.steps = 2
  /\ mem[positionsIn].data # mem[positionsOut].data

C6_ReadyTick ==
  [][(phase = "Ready" /\ Tick) =>
       /\ lastTick'.kind = "step" /\ lastTick'.executed
       /\ Len(submitted') = 2
       /\ submitted'[1].pass = "compute" /\ submitted'[2].pass = "render"
       /\ submitted'[1].n = DispatchCount(numBodies, workgroupSize)
       /\ positionsIn' = positionsOut /\ positionsOut' = positionsIn
       /\ hist'.swaps = hist.swaps + 1
       /\ rafPending' = rafPending]_vars

C6_Witness ==
  /\ phase = "Ready" /\ lastTick.kind = "step" /\ lastTick.executed
  /\ hist.steps = 2 /\ PassCount(submitted, "compute") = 1

\* C7: draw() called while there is no compute pipeline submits nothing,
\* changes no buffer and no role, and registers itself again; whenever the
\* pipelines exist a frame callback is registered, so ticking goes on.
C7_NotReadyTick ==
  /\ [][(computePipeline = NullPipeline /\ Drew) =>
          /\ lastTick'.kind = "notready" /\ lastTick'.acquired = 0
          /\ submitted' = <<>>
          /\ UNCHANGED <<gpuObjects, hist>>
          /\ rafPending' >= 1 /\ rafPending' >= rafPending]_vars
  /\ [](computePipeline # NullPipeline => rafPending >= 1)

C7_Witness ==
  /\ lastTick.kind = "notready" /\ phase = "Initializing"
  /\ rafPending >= 1 /\ submitted = <<>>

\* C8: between handlers the loop moves only along Uninitialized ->
\* Initializing -> Ready <-> Paused (and back to Initializing); when run()
\* has applied options the loop is Ready, with pipelines built for those
\* options, three new buffers and the seeded state in "in"; camera input
\* changes the camera offset alone.
PhaseEdges ==
  {<<"Uninitialized", "Initializing">>, <<"Initializing", "Ready">>,
   <<"Ready", "Paused">>, <<"Paused", "Ready">>,
   <<"Ready", "Initializing">>, <<"Paused", "Initializing">>}

AllRunsDone == loaded /\ \A r \in Runs : runs[r] = "idle"

C9_LatestRequestWins ==
  AllRunsDone =>
    /\ <<numBodies, workgroupSize>> = selection
    /\ computePipeline = [dev |-> device, n |-> selection[1], w |-> selection[2]]
    /\ renderPipeline = computePipeline
    /\ \A b \in {positionsIn, positionsOut, velocities} :
         mem[b].dev = device /\ DOMAIN mem[b].data = 0..(selection[1] - 1)
    /\ \A b \in BufIds \ {positionsIn, positionsOut, velocities} : mem[b] = NoBuffer

\* Two run() calls have each gone through init(), and both are done.
C9_Witness ==
  /\ AllRunsDone /\ rafPending = 2 /\ device = 1
  /\ <<numBodies, workgroupSize>> = selection

\* init() configures the canvas context before it calls draw(), and nothing
\* unconfigures it: whenever draw() has run, the render target was available.
TargetAvailableAtDraw ==
  lastTick.kind # "none" => (canvasContext # 0 /\ canvasContext = device)

\* C12: a tick in the Paused state submits one render pass whose vertex
\* buffer is the buffer written last, by the most recent executed step or, if
\* none ran since the reset, by the seeding, holding those positions; and it
\* registers one frame callback in place of the one that ran.
C12_PausedRendersLastState ==
  /\ [](lastTick.kind = "paused" =>
          /\ Len(submitted) = 1 /\ submitted[1].pass = "render"
          /\ submitted[1].buffers = <<hist.written.buf>>
          /\ mem[hist.written.buf].data = hist.written.data
          /\ hist.steps = 0 => hist.written.data \in SeedStates(numBodies)
          /\ rafPending >= 1)
  /\ [][(phase = "Paused" /\ Tick) =>
          /\ lastTick'.kind = "paused" /\ lastTick'.executed
          /\ rafPending' = rafPending]_vars

C12_Witness ==
  /\ lastTick.kind = "paused" /\ lastTick.executed /\ hist.steps = 2
  /\ submitted[1].buffers = <<hist.written.buf>>
  /\ mem[positionsIn].data # mem[positionsOut].data

\* C13: every body of the positions written last (by the seeding, or by the
\* most recent executed step) has mass 1, the seeded mass, in its 4th
\* component, and the 4th component of every velocity is 0; right after the
\* seeding all velocities are zero.
C13_MassPreserved ==
  hist.written.buf # 0 =>
    /\ \A i \in 0..(numBodies - 1) :
         /\ mem[hist.written.buf].data[i][2] = 1
         /\ mem[velocities].data[i][2] = 0
    /\ hist.swaps = 0 => mem[velocities].data = ZeroData(numBodies)

\* C14: computeForce at equal positions is the zero vector (its divisor is
\* positive there), for a body against itself as for two bodies at one place;
\* so the sum over all j that cs_main forms equals the sum over j # i.
SoftenedVecs == {<<x, m>> : x \in (-kRadius)..kRadius, m \in 0..2}

RECURSIVE ForceSumExcept(_, _, _, _)
ForceSumExcept(i, pos, pin, n) ==
  IF n <= 0 THEN <<0, 0>>
  ELSE Vec4Add(ForceSumExcept(i, pos, pin, n - 1),
               IF n - 1 = i THEN <<0, 0>> ELSE computeForce(pos, pin[n - 1]))

C14_SelfTermIsZero ==
  /\ kSoftening * kSoftening * ISqrt(kSoftening * kSoftening) > 0
  /\ \A p \in SoftenedVecs : computeForce(p, p) = <<0, 0>>
  /\ \A b \in {positionsIn, positionsOut} \ {0} :
       LET pin == mem[b].data
       IN  /\ \A i, j \in DOMAIN pin :
                pin[i][1] = pin[j][1] => computeForce(pin[i], pin[j]) = <<0, 0>>
           /\ \A i \in DOMAIN pin :
                ForceLoop(pin[i], pin, numBodies) = ForceSumExcept(i, pin[i], pin, numBodies)

\* A step has run on two bodies at one place away from the origin, next to a
\* third elsewhere.
C14_Witness ==
  /\ lastTick.kind = "step" /\ lastTick.executed /\ numBodies = 3
  /\ \E i, j, k \in DOMAIN mem[positionsOut].data :
       LET pin == mem[positionsOut].data
       IN  i # j /\ pin[i] = pin[j] /\ pin[i][1] # 0 /\ pin[k][1] # pin[i][1]

\* C15: in a step no two invocations touch one storage location unless both
\* only read it, and no invocation writes the buffer bound as positionsIn; so
\* running the invocations one after the other, in any order, leaves the
\* memory the pass leaves.
Orders(S) == {f \in [1..Cardinality(S) -> S] : \A x \in S : \E k \in DOMAIN f : f[k] = x}

C15_OrderIndependent ==
  computePipeline # NullPipeline =>
    LET bg == <<positionsIn, positionsOut, velocities>>
        count == DispatchCount(numBodies, workgroupSize)
        ids == Invocations(count, computePipeline.w) \cap DOMAIN mem[positionsIn].data
        res == ComputePass(mem[positionsIn].data, mem[positionsOut].data,
                           mem[velocities].data, count, computePipeline)
        after == [mem EXCEPT ![positionsOut].data = res.out, ![velocities].data = res.vel]
    IN  /\ \A i \in ids : \A a \in Writes(i, bg) : a[1] # positionsIn
        /\ \A i, j \in ids :
             i # j => Writes(i, bg) \cap (Reads(j, bg, computePipeline.n) \cup Writes(j, bg)) = {}
        /\ \A order \in Orders(ids) : SequentialPass(order, mem, bg, computePipeline) = after

\* Two bodies at different places are about to be stepped a second time.
C15_Witness ==
  /\ computePipeline # NullPipeline /\ ~paused /\ hist.steps = 1 /\ lastTick.executed
  /\ DispatchCount(numBodies, workgroupSize) * workgroupSize >= 2
  /\ mem[positionsIn].data[0] # mem[positionsIn].data[1]
  /\ mem[velocities].data[0] # <<0, 0>>

\* C16: when draw() has encoded work, the three buffers hold numBodies
\* elements and are of the device of the pipelines, both pipelines were built
\* with numBodies and workgroupSize, and the dispatch count and the instance
\* count come from those same two values; a step that changes numBodies or
\* workgroupSize replaces all three buffers and both pipelines.
C16_OneConfiguration ==
  /\ [](lastTick.kind \in {"step", "paused"} =>
          /\ \A b \in {positionsIn, positionsOut, velocities} :
               /\ DOMAIN mem[b].data = 0..(numBodies - 1)
               /\ mem[b].dev = computePipeline.dev
          /\ computePipeline.n = numBodies /\ computePipeline.w = workgroupSize
          /\ renderPipeline.n = numBodies /\ renderPipeline.w = workgroupSize
          /\ \A i \in DOMAIN submitted :
               IF submitted[i].pass = "compute"
               THEN /\ submitted[i].pipeline = computePipeline
                    /\ submitted[i].n = DispatchCount(computePipeline.n, computePipeline.w)
               ELSE /\ submitted[i].pipeline = renderPipeline
                    /\ submitted[i].n = computePipeline.n)
  /\ [][config' # config =>
          /\ {positionsIn', positionsOut', velocities'} \cap
               {positionsIn, positionsOut, velocities} = {}
          /\ \A b \in {positionsIn', positionsOut', velocities'} :
               DOMAIN mem'[b].data = 0..(numBodies' - 1)
          /\ computePipeline'.n = numBodies' /\ computePipeline'.w = workgroupSize'
          /\ renderPipeline'.n = numBodies' /\ renderPipeline'.w = workgroupSize']_vars

\* A step has run after the options were changed to other values.
C16_Witness ==
  /\ lastTick.kind = "step" /\ lastTick.executed /\ hist.in = 4
  /\ numBodies = 3 /\ workgroupSize = 2 /\ Len(submitted) = 2

\* C17: an executed step runs one invocation for each body index 0..N-1 and
\* for no other index.
C17_EveryBodyUpdatedOnce ==
  (lastTick.kind = "step" /\ lastTick.executed) =>
    Invocations(submitted[1].n, submitted[1].pipeline.w) = 0..(numBodies - 1)

\* C18: at most one draw callback is registered at any time, and once the
\* device is set it is never set again.
C18_SingleFrameLoop ==
  /\ [](rafPending <= 1)
  /\ [][device # 0 => device' = device]_vars

====
